---- MODULE Spec2Model ----
(***************************************************************************)
(* cellar: an embedded single-writer append-only record log.               *)
(*                                                                         *)
(* The model follows writer.go: a Writer owns the current Buffer, appends  *)
(* length-prefixed records to it, seals it into a Chunk when the next      *)
(* record does not fit, and persists the buffer descriptor, the chunk      *)
(* index and the statistics in a transactional metadata store.  The Buffer *)
(* methods, the lmdb helpers and the Reader live in files of the           *)
(* repository that are not part of the sources at hand; they are modelled  *)
(* from the specification (sections 4.1, 4.4 and 6).                       *)
(*                                                                         *)
(* Files are sequences of bytes, records are encoded with Go's signed      *)
(* varint, and every I/O step of an operation may fail.                    *)
(***************************************************************************)
EXTENDS Integers, Sequences, FiniteSets, TLC

VARIABLES
    alive,       \* TRUE while a Writer instance exists and its db is open
    w,           \* the Writer struct: b, maxKeySize, maxValSize, maxBufferSize
    db,          \* the metadata store: buffer descriptor, chunk index, meta, user checkpoints
    files,       \* buffer files of the folder: file name -> bytes on stable storage
    chunkFiles,  \* chunk artifacts of the folder: startPos -> bytes they decode to
    last,        \* the last call on the Writer and what it returned
    anchor,      \* the position at the latest successful Checkpoint or seal
    ckptSeen,    \* largest position a successful Checkpoint returned on this folder
    nAppends,    \* number of Append calls that succeeded so far
    nFaults,     \* number of Append, seal and Checkpoint calls in which a step failed
    nRestarts,   \* number of times a Writer was constructed on a used folder
    log,         \* the records appended and not lost since: <<[start, len]>>
    rd,          \* the Reader's scan: where it is, its snapshot, what it delivered
    puts,        \* name -> position of the latest successful PutUserCheckpoint
    added        \* startPos key -> the chunk AddChunk stored under it last

vars == <<alive, w, db, files, chunkFiles, last, anchor, ckptSeen,
          nAppends, nFaults, nRestarts, log, rd, puts, added>>

---------------------------------------------------------------------------
(* Bounds and inputs *)

\* At most MaxAppends calls of Append succeed in a behaviour.
MaxAppends == 2

\* At most MaxFaults calls have a failing step in a behaviour.
MaxFaults == 1

\* A Writer is constructed on a used folder at most MaxRestarts times.
MaxRestarts == 1

\* The maxBufferSize values NewWriter is called with.
BufferSizes == {4, 16}

\* Payload lengths Append is called with: empty, small, larger than the
\* buffer (20 > 16), and long enough for a two-byte length prefix (64).
DataLens == {0, 2, 20, 64}

\* The payload of length n: bytes that differ from position to position.
MkData(n) == [i \in 1..n |-> (37 * i + n) % 256]

Payloads == {MkData(n) : n \in DataLens}

\* The names and positions PutUserCheckpoint is called with.
CheckpointNames == {"consumerA", "consumerB"}

CheckpointPositions == {7, 123}

\* The metadata store's AddChunk is called with the keys 0, 10, .., 10 * MaxKey.
MaxKey == 4

ChunkKeys == {10 * i : i \in 0..MaxKey}

\* The chunks stored under a key: the zero ChunkDto and one of that startPos.
ChunkDtos(key) ==
    {[StartPos |-> 0, UncompressedByteSize |-> 0, Records |-> 0],
     [StartPos |-> key, UncompressedByteSize |-> 10, Records |-> 1]}

\* The queue depths ScanAsync is called with.
BufferDepths == {1, 2}

\* What may go wrong during one call.
Faults == {"none", "flush", "compress", "tx", "remove", "prefix", "body"}

\* The steps of Seal-and-Rotate that may fail.
SealFaults == {"flush", "compress", "tx", "remove"}

None == [none |-> TRUE]

Max(a, b) == IF a >= b THEN a ELSE b
Min(a, b) == IF a <= b THEN a ELSE b

Take(s, n) == SubSeq(s, 1, Min(n, Len(s)))

---------------------------------------------------------------------------
(* Encoding *)

\* binary.PutUvarint: seven bits per byte, low group first, high bit set on
\* every byte but the last.
RECURSIVE PutUvarint(_)
PutUvarint(ux) ==
    IF ux < 128 THEN <<ux>>
    ELSE <<(ux % 128) + 128>> \o PutUvarint(ux \div 128)

\* Mutant: the unsigned encoding.
PutVarint_unsigned(x) == PutUvarint(x)

\* binary.PutVarint: zig-zag (x << 1, complemented when x < 0), then uvarint.
PutVarint(x) ==
    PutUvarint(IF x >= 0 THEN 2 * x ELSE -(2 * x) - 1)

\* fmt.Sprintf("%012d", startPos): at least twelve decimal digits.
RECURSIVE Digits(_, _)
Digits(n, width) ==
    IF width <= 1 /\ n < 10 THEN <<n>>
    ELSE Digits(n \div 10, width - 1) \o <<n % 10>>

FileNameOf(startPos) == Digits(startPos, 12)

---------------------------------------------------------------------------
(* Buffer: the appendable segment (specification 4.1) *)

\* The bytes a file holds in [0, n): what is there, zero where the file is
\* shorter.
ReadFile(fs, name, n) ==
    LET have == IF name \in DOMAIN fs THEN fs[name] ELSE <<>>
    IN  [i \in 1..n |-> IF i <= Len(have) THEN have[i] ELSE 0]

\* openBuffer: opens (creating it when absent) the file the descriptor names
\* and positions the Buffer at dto.Pos.
openBuffer(dto, fs) ==
    [startPos |-> dto.StartPos,
     pos      |-> dto.Pos,
     maxBytes |-> dto.MaxBytes,
     records  |-> dto.Records,
     fileName |-> dto.FileName,
     stream   |-> ReadFile(fs, dto.FileName, dto.Pos),
     linked   |-> TRUE]

\* The folder after openBuffer: the file exists.
openFile(dto, fs) ==
    IF dto.FileName \in DOMAIN fs THEN fs ELSE (dto.FileName :> <<>>) @@ fs

fits(buf, n) == buf.pos + n <= buf.maxBytes \/ buf.pos = 0

writeBytes(buf, bs) ==
    [buf EXCEPT !.stream = @ \o bs, !.pos = @ + Len(bs)]

endRecord(buf) == [buf EXCEPT !.records = @ + 1]

\* flush: everything written reaches the file, when the file still has its
\* name in the folder.
flush(buf, fs) ==
    IF buf.linked THEN [fs EXCEPT ![buf.fileName] = buf.stream] ELSE fs

compress(buf) ==
    [StartPos             |-> buf.startPos,
     UncompressedByteSize |-> buf.pos,
     Records              |-> buf.records]

getState(buf) ==
    [Pos      |-> buf.pos,
     StartPos |-> buf.startPos,
     MaxBytes |-> buf.maxBytes,
     Records  |-> buf.records,
     FileName |-> buf.fileName]

---------------------------------------------------------------------------
(* Metadata store records *)

lmdbGetBuffer(d) == d.buffer
lmdbPutBuffer(d, dto) == [d EXCEPT !.buffer = dto]
lmdbAddChunk(d, key, dto) ==
    [d EXCEPT !.chunks = [k \in DOMAIN d.chunks \cup {key} |->
                             IF k = key THEN dto ELSE d.chunks[k]]]
lmdbGetCellarMeta(d) == d.meta
lmdbSetCellarMeta(d, meta) == [d EXCEPT !.meta = meta]

lmdbPutUserCheckpoint(d, name, pos) ==
    [d EXCEPT !.ucp = [k \in DOMAIN d.ucp \cup {name} |->
                          IF k = name THEN pos ELSE d.ucp[k]]]
\* A name that was never put reads as position 0.
lmdbGetUserCheckpoint(d, name) ==
    IF name \in DOMAIN d.ucp THEN d.ucp[name] ELSE 0

\* The chunk index in key order.
RECURSIVE SortedKeys(_)
SortedKeys(S) ==
    IF S = {} THEN <<>>
    ELSE LET m == CHOOSE x \in S : \A y \in S : x <= y
         IN  <<m>> \o SortedKeys(S \ {m})

\* Mutant: the chunk index in descending key order.
lmdbListChunks_reversed(d) ==
    LET ks == SortedKeys(DOMAIN d.chunks)
    IN  [i \in 1..Len(ks) |-> d.chunks[ks[Len(ks) + 1 - i]]]

lmdbListChunks(d) ==
    LET ks == SortedKeys(DOMAIN d.chunks)
    IN  [i \in 1..Len(ks) |-> d.chunks[ks[i]]]

---------------------------------------------------------------------------
(* Writer operations as functions of the state they read and write.        *)
(* A state s is [w, db, files, chunkFiles]; a fault f names the step of    *)
(* the call that fails ("none": nothing fails).                            *)

\* Mutant: the offset within the Buffer, without its startPos.
VolatilePos_posOnly(wr) ==
    IF wr.b # None THEN wr.b.pos ELSE 0

VolatilePos(wr) ==
    IF wr.b # None THEN wr.b.startPos + wr.b.pos ELSE 0

\* Mutant: the new descriptor is not put.
createBuffer_noPut(d, startPos, maxSize, fs) ==
    LET dto == [Pos      |-> 0,
                StartPos |-> startPos,
                MaxBytes |-> maxSize,
                Records  |-> 0,
                FileName |-> FileNameOf(startPos)]
    IN  [buf   |-> openBuffer(dto, fs),
         db    |-> d,
         files |-> openFile(dto, fs)]

\* createBuffer inside a transaction on d: the Buffer it opens, the
\* descriptor it puts and the folder afterwards.
createBuffer(d, startPos, maxSize, fs) ==
    LET dto == [Pos      |-> 0,
                StartPos |-> startPos,
                MaxBytes |-> maxSize,
                Records  |-> 0,
                FileName |-> FileNameOf(startPos)]
    IN  [buf   |-> openBuffer(dto, fs),
         db    |-> lmdbPutBuffer(d, dto),
         files |-> openFile(dto, fs)]

\* os.Remove(path): the name leaves the folder.
Remove(fs, name) == [k \in DOMAIN fs \ {name} |-> fs[k]]

\* Mutant: the new Buffer starts at the sealed Buffer's size.
NextStartPos_sizeOnly(dto) == dto.UncompressedByteSize

\* newStartPos := dto.StartPos + dto.UncompressedByteSize
NextStartPos(dto) == dto.StartPos + dto.UncompressedByteSize

\* Mutant: the new Buffer becomes current before the error is looked at.
AfterUpdate_swapFirst(s, oldBuffer, created, artifacts, f) ==
    IF f = "tx" THEN
        [err |-> TRUE,
         s   |-> [s EXCEPT !.w.b = created.buf,
                           !.files = created.files, !.chunkFiles = artifacts]]
    ELSE
        [err |-> FALSE,
         s   |-> [w          |-> [s.w EXCEPT !.b = created.buf],
                  db         |-> created.db,
                  files      |-> created.files,
                  chunkFiles |-> artifacts]]

\* The end of SealTheBuffer, after w.db.Update returned: an error leaves the
\* Writer and the store as they were (the transaction rolled back, the files
\* written so far stay); otherwise the new Buffer becomes current and the
\* old Buffer's file is removed, unless os.Remove fails.
AfterUpdate(s, oldBuffer, created, artifacts, f) ==
    LET sameFile == created.buf.fileName = oldBuffer.fileName
    IN  IF f = "tx" THEN
            [err |-> TRUE,
             s   |-> [s EXCEPT !.files = created.files, !.chunkFiles = artifacts]]
        ELSE IF f = "remove" THEN
            [err |-> FALSE,
             s   |-> [w          |-> [s.w EXCEPT !.b = created.buf],
                      db         |-> created.db,
                      files      |-> created.files,
                      chunkFiles |-> artifacts]]
        ELSE
            [err |-> FALSE,
             s   |-> [w          |-> [s.w EXCEPT !.b =
                                         [created.buf EXCEPT !.linked = ~sameFile]],
                      db         |-> created.db,
                      files      |-> Remove(created.files, oldBuffer.fileName),
                      chunkFiles |-> artifacts]]

SealTheBuffer(s, f) ==
    LET oldBuffer   == s.w.b
        flushed     == flush(oldBuffer, s.files)
        dto         == compress(oldBuffer)
        artifacts   == [k \in DOMAIN s.chunkFiles \cup {dto.StartPos} |->
                           IF k = dto.StartPos THEN oldBuffer.stream
                           ELSE s.chunkFiles[k]]
        newStartPos == NextStartPos(dto)
        created     == createBuffer(lmdbAddChunk(s.db, dto.StartPos, dto),
                                    newStartPos, s.w.maxBufferSize, flushed)
    IN  IF f = "flush" THEN
            [err |-> TRUE, s |-> s]
        ELSE IF f = "compress" THEN
            [err |-> TRUE, s |-> [s EXCEPT !.files = flushed]]
        ELSE
            AfterUpdate(s, oldBuffer, created, artifacts, f)

\* Mutant: the Buffer is never sealed.
MustSeal_never(buf, totalSize) == FALSE

\* if !w.b.fits(int64(totalSize))
MustSeal(buf, totalSize) == ~fits(buf, totalSize)

\* Writer.Append (Append is taken by Sequences).
WriterAppend(s, data, f) ==
    LET dataLen   == Len(data)
        prefix    == PutVarint(dataLen)
        n         == Len(prefix)
        totalSize == n + Len(data)
        mustSeal  == MustSeal(s.w.b, totalSize)
        sealed    == IF mustSeal THEN SealTheBuffer(s, f)
                     ELSE [err |-> FALSE, s |-> s]
        s1        == sealed.s
        b1        == writeBytes(s1.w.b, prefix)
        b2        == endRecord(writeBytes(b1, data))
        didSeal   == mustSeal /\ ~sealed.err
    IN  IF sealed.err THEN
            [err |-> TRUE, ret |-> 0, sealed |-> FALSE, s |-> s1]
        ELSE IF f = "prefix" THEN
            [err |-> TRUE, ret |-> 0, sealed |-> didSeal, s |-> s1]
        ELSE IF f = "body" THEN
            [err |-> TRUE, ret |-> 0, sealed |-> didSeal,
             s   |-> [s1 EXCEPT !.w.b = b1]]
        ELSE
            [err |-> FALSE,
             ret |-> b2.startPos + b2.pos,
             sealed |-> didSeal,
             s   |-> [s1 EXCEPT !.w.b = b2,
                                !.w.maxValSize = Max(@, dataLen)]]

\* Mutant: the descriptor is not put.
CheckpointTx_metaOnly(d, dto, meta) == lmdbSetCellarMeta(d, meta)

\* Mutant: the statistics are not set.
CheckpointTx_bufferOnly(d, dto, meta) == lmdbPutBuffer(d, dto)

\* The transaction of Checkpoint: the descriptor and the statistics.
CheckpointTx(d, dto, meta) ==
    lmdbSetCellarMeta(lmdbPutBuffer(d, dto), meta)

Checkpoint(s, f) ==
    LET flushed == IF f = "flush" THEN s.files ELSE flush(s.w.b, s.files)
        dto     == getState(s.w.b)
        current == dto.StartPos + dto.Pos
        meta    == [MaxKeySize |-> s.w.maxKeySize, MaxValSize |-> s.w.maxValSize]
    IN  IF f = "tx" THEN
            [err |-> TRUE, ret |-> 0, s |-> [s EXCEPT !.files = flushed]]
        ELSE
            [err |-> FALSE,
             ret |-> current,
             s   |-> [s EXCEPT !.files = flushed,
                               !.db = CheckpointTx(s.db, dto, meta)]]

\* Mutant: the transaction commits nothing.
UserCheckpointTx_dropped(d, name, pos) == d

\* Mutant: the transaction also resets the statistics.
UserCheckpointTx_andMeta(d, name, pos) ==
    lmdbSetCellarMeta(lmdbPutUserCheckpoint(d, name, pos), None)

\* The transaction of PutUserCheckpoint.
UserCheckpointTx(d, name, pos) == lmdbPutUserCheckpoint(d, name, pos)

PutUserCheckpoint(s, name, pos, f) ==
    IF f = "tx" THEN [err |-> TRUE, s |-> s]
    ELSE [err |-> FALSE, s |-> [s EXCEPT !.db = UserCheckpointTx(s.db, name, pos)]]

GetUserCheckpoint(s, name, f) ==
    IF f = "tx" THEN [err |-> TRUE, ret |-> 0]
    ELSE [err |-> FALSE, ret |-> lmdbGetUserCheckpoint(s.db, name)]

NewWriter(d, fs, maxBufferSize) ==
    LET dto     == lmdbGetBuffer(d)
        created == createBuffer(d, 0, maxBufferSize, fs)
        meta    == IF dto = None THEN None ELSE lmdbGetCellarMeta(d)
        b       == IF dto = None THEN created.buf ELSE openBuffer(dto, fs)
    IN  [w     |-> [b             |-> b,
                    maxKeySize    |-> IF meta # None THEN meta.MaxKeySize ELSE 0,
                    maxValSize    |-> IF meta # None THEN meta.MaxValSize ELSE 0,
                    maxBufferSize |-> maxBufferSize],
         db    |-> IF dto = None THEN created.db ELSE d,
         files |-> IF dto = None THEN created.files ELSE openFile(dto, fs)]

---------------------------------------------------------------------------
(* Reader (specification 4.4): decodes the chunks of the index, oldest      *)
(* first, then the live Buffer's file up to the position of its snapshot.  *)

\* binary.ReadUvarint from index i of bs: the value and the index after it;
\* ok is FALSE when the bytes end inside the number.
RECURSIVE ReadUvarint(_, _)
ReadUvarint(bs, i) ==
    IF i > Len(bs) THEN [ok |-> FALSE, value |-> 0, next |-> i]
    ELSE IF bs[i] < 128 THEN [ok |-> TRUE, value |-> bs[i], next |-> i + 1]
    ELSE LET rest == ReadUvarint(bs, i + 1)
         IN  [ok    |-> rest.ok,
              value |-> (bs[i] - 128) + 128 * rest.value,
              next  |-> rest.next]

\* binary.ReadVarint: the zig-zag decoding of ReadUvarint.
ReadVarint(bs, i) ==
    LET u == ReadUvarint(bs, i)
    IN  [u EXCEPT !.value = IF u.value % 2 = 0 THEN u.value \div 2
                            ELSE -((u.value + 1) \div 2)]

\* The records of bs from index i on, bs being the bytes of a segment that
\* starts at logical position base; decoding stops at the last record that
\* is fully there.
RECURSIVE DecodeRecords(_, _, _)
DecodeRecords(bs, i, base) ==
    LET len == ReadVarint(bs, i)
    IN  IF ~len.ok \/ len.value < 0 \/ len.next + len.value - 1 > Len(bs) THEN <<>>
        ELSE <<[pos  |-> base + i - 1,
                data |-> SubSeq(bs, len.next, len.next + len.value - 1)]>>
             \o DecodeRecords(bs, len.next + len.value, base)

\* The records of a decoded segment that start at fromPos or later.
From(recs, fromPos) == SelectSeq(recs, LAMBDA r : r.pos >= fromPos)

\* The records of the chunks chs[i..], read from their artifacts.
RECURSIVE ScanChunks(_, _, _)
ScanChunks(chs, i, artifacts) ==
    IF i > Len(chs) THEN <<>>
    ELSE DecodeRecords(artifacts[chs[i].StartPos], 1, chs[i].StartPos)
         \o ScanChunks(chs, i + 1, artifacts)

---------------------------------------------------------------------------
(* The state machine *)

State == [w |-> w, db |-> db, files |-> files, chunkFiles |-> chunkFiles]

NoWriter == [b |-> None, maxKeySize |-> 0, maxValSize |-> 0, maxBufferSize |-> 0]

\* What is remembered of a call: the operation, its argument (Append: the
\* payload length; NewWriter: maxBufferSize), the step that failed, the
\* error flag and the position returned; retry: for an Append of the payload
\* whose Append failed in the call just before, the step that failed there.
Call(op, arg, f, err, ret) ==
    [op |-> op, arg |-> arg, fault |-> f, err |-> err, ret |-> ret,
     retry |-> IF op = "Append" /\ last.op = "Append" /\ last.err /\ last.arg = arg
               THEN last.fault ELSE "none"]

Idle == [pc |-> "idle", fromPos |-> 0, end |-> 0, chunks |-> <<>>,
         buffer |-> None, out |-> <<>>, err |-> FALSE, expect |-> <<>>]

\* An empty folder; no Writer has been constructed yet.
Init ==
    /\ alive = FALSE
    /\ w = NoWriter
    /\ db = [buffer |-> None,
             chunks |-> [k \in {} |-> None],
             meta   |-> None,
             ucp    |-> [k \in {} |-> 0]]
    /\ files = [k \in {} |-> <<>>]
    /\ chunkFiles = [k \in {} |-> <<>>]
    /\ last = [op |-> "none", arg |-> 0, fault |-> "none", err |-> FALSE,
               ret |-> 0, retry |-> "none"]
    /\ anchor = 0
    /\ ckptSeen = 0
    /\ nAppends = 0
    /\ nFaults = 0
    /\ nRestarts = 0
    /\ log = <<>>
    /\ rd = Idle
    /\ puts = [k \in {} |-> 0]
    /\ added = [k \in {} |-> None]

\* A call may have a failing step while the fault budget lasts.
Budget(f) ==
    /\ f # "none" => nFaults < MaxFaults
    /\ nFaults' = IF f = "none" THEN nFaults ELSE nFaults + 1

Install(s) ==
    /\ w' = s.w
    /\ db' = s.db
    /\ files' = s.files
    /\ chunkFiles' = s.chunkFiles

DoNewWriter ==
    /\ ~alive
    /\ db.buffer # None => nRestarts < MaxRestarts
    /\ nRestarts' = IF db.buffer = None THEN nRestarts ELSE nRestarts + 1
    /\ \E m \in BufferSizes :
         LET r == NewWriter(db, files, m)
         IN  /\ w' = r.w
             /\ db' = r.db
             /\ files' = r.files
             /\ last' = Call("NewWriter", m, "none", FALSE, VolatilePos(r.w))
             /\ log' = SelectSeq(log, LAMBDA e :
                           e.start + Len(PutVarint(e.len)) + e.len <= VolatilePos(r.w))
    /\ alive' = TRUE
    /\ UNCHANGED <<chunkFiles, anchor, ckptSeen, nAppends, nFaults, rd, puts, added>>

DoVolatilePos ==
    /\ alive
    /\ last' = Call("VolatilePos", 0, "none", FALSE, VolatilePos(w))
    /\ UNCHANGED <<alive, w, db, files, chunkFiles, anchor, ckptSeen,
                   nAppends, nFaults, nRestarts, log, rd, puts, added>>

DoAppend ==
    /\ alive
    /\ nAppends < MaxAppends
    /\ \E data \in Payloads, f \in Faults :
         LET r == WriterAppend(State, data, f)
         IN  /\ f \in SealFaults =>
                  ~fits(w.b, Len(PutVarint(Len(data))) + Len(data))
             /\ Budget(f)
             /\ Install(r.s)
             /\ last' = Call("Append", Len(data), f, r.err, r.ret)
             /\ nAppends' = IF r.err THEN nAppends ELSE nAppends + 1
             /\ anchor' = IF r.sealed THEN r.s.w.b.startPos ELSE anchor
             /\ log' = IF r.err THEN log
                       ELSE log \o <<[start |-> VolatilePos(w), len |-> Len(data)]>>
    /\ UNCHANGED <<alive, ckptSeen, nRestarts, rd, puts, added>>

DoSealTheBuffer ==
    /\ alive
    /\ \E f \in SealFaults \cup {"none"} :
         LET r == SealTheBuffer(State, f)
         IN  /\ Budget(f)
             /\ Install(r.s)
             /\ last' = Call("SealTheBuffer", 0, f, r.err, 0)
             /\ anchor' = IF r.err THEN anchor ELSE r.s.w.b.startPos
    /\ UNCHANGED <<alive, ckptSeen, nAppends, nRestarts, log, rd, puts, added>>

DoCheckpoint ==
    /\ alive
    /\ \E f \in {"none", "flush", "tx"} :
         LET r == Checkpoint(State, f)
         IN  /\ Budget(f)
             /\ Install(r.s)
             /\ last' = Call("Checkpoint", 0, f, r.err, r.ret)
             /\ anchor' = IF r.err THEN anchor ELSE r.ret
             /\ ckptSeen' = IF r.err THEN ckptSeen ELSE Max(ckptSeen, r.ret)
    /\ UNCHANGED <<alive, nAppends, nRestarts, log, rd, puts, added>>

\* Close, or the process stopping: the db is closed, the Buffer is neither
\* flushed nor checkpointed, and what it held in memory is gone.
DoClose ==
    /\ alive
    /\ alive' = FALSE
    /\ w' = NoWriter
    /\ last' = Call("Close", 0, "none", FALSE, 0)
    /\ UNCHANGED <<db, files, chunkFiles, anchor, ckptSeen,
                   nAppends, nFaults, nRestarts, log, rd, puts, added>>

\* A user checkpoint call whose transaction fails leaves everything as it
\* was; such failures are not counted in the fault budget.
DoPutUserCheckpoint ==
    /\ alive
    /\ \E name \in CheckpointNames, pos \in CheckpointPositions, f \in {"none", "tx"} :
         LET r == PutUserCheckpoint(State, name, pos, f)
         IN  /\ Install(r.s)
             /\ last' = Call("PutUserCheckpoint", [name |-> name, pos |-> pos],
                             f, r.err, 0)
             /\ puts' = IF r.err THEN puts
                        ELSE [k \in DOMAIN puts \cup {name} |->
                                 IF k = name THEN pos ELSE puts[k]]
    /\ UNCHANGED <<alive, anchor, ckptSeen, nAppends, nFaults, nRestarts,
                   log, rd, added>>

DoGetUserCheckpoint ==
    /\ alive
    /\ \E name \in CheckpointNames, f \in {"none", "tx"} :
         LET r == GetUserCheckpoint(State, name, f)
         IN  last' = Call("GetUserCheckpoint", [name |-> name], f, r.err, r.ret)
    /\ UNCHANGED <<alive, w, db, files, chunkFiles, anchor, ckptSeen,
                   nAppends, nFaults, nRestarts, log, rd, puts, added>>

\* Scan(fromPos) begins: one read transaction gives the chunk index and the
\* buffer descriptor, hence the {pos, fileName} snapshot and the log's end.
ScanStart ==
    /\ rd.pc = "idle"
    /\ db.buffer # None
    /\ \E fromPos \in {0} \cup {log[i].start : i \in 1..Len(log)} :
         LET end == db.buffer.StartPos + db.buffer.Pos
         IN  /\ fromPos <= end
             /\ rd' = [pc      |-> "chunks",
                       fromPos |-> fromPos,
                       end     |-> end,
                       chunks  |-> lmdbListChunks(db),
                       buffer  |-> db.buffer,
                       out     |-> <<>>,
                       err     |-> FALSE,
                       expect  |-> SelectSeq(log, LAMBDA e :
                                      /\ e.start >= fromPos
                                      /\ e.start + Len(PutVarint(e.len)) + e.len <= end)]
    /\ UNCHANGED <<alive, w, db, files, chunkFiles, last, anchor, ckptSeen,
                   nAppends, nFaults, nRestarts, log, puts, added>>

\* The chunks of the snapshot are decoded, oldest first.
ScanTheChunks ==
    /\ rd.pc = "chunks"
    /\ LET missing == \E i \in 1..Len(rd.chunks) :
                          rd.chunks[i].StartPos \notin DOMAIN chunkFiles
       IN  rd' = IF missing THEN [rd EXCEPT !.pc = "done", !.err = TRUE]
                 ELSE [rd EXCEPT !.pc = "buffer",
                                 !.out = From(ScanChunks(rd.chunks, 1, chunkFiles),
                                              rd.fromPos)]
    /\ UNCHANGED <<alive, w, db, files, chunkFiles, last, anchor, ckptSeen,
                   nAppends, nFaults, nRestarts, log, puts, added>>

\* The live Buffer's file is opened by the name of the snapshot and decoded
\* up to the snapshot's pos.
ScanTheBuffer ==
    /\ rd.pc = "buffer"
    /\ rd' = IF rd.buffer.Pos = 0 THEN [rd EXCEPT !.pc = "done"]
             ELSE IF rd.buffer.FileName \notin DOMAIN files
             THEN [rd EXCEPT !.pc = "done", !.err = TRUE]
             ELSE [rd EXCEPT
                     !.pc = "done",
                     !.out = @ \o From(DecodeRecords(
                                          Take(files[rd.buffer.FileName], rd.buffer.Pos),
                                          1, rd.buffer.StartPos),
                                       rd.fromPos)]
    /\ UNCHANGED <<alive, w, db, files, chunkFiles, last, anchor, ckptSeen,
                   nAppends, nFaults, nRestarts, log, puts, added>>

Next ==
    \/ DoNewWriter
    \/ DoVolatilePos
    \/ DoAppend
    \/ DoSealTheBuffer
    \/ DoCheckpoint
    \/ DoClose

Spec == Init /\ [][Next]_vars

\* A scan that runs beside a Writer whose calls all succeed.
InitScan ==
    /\ alive = FALSE
    /\ w = NoWriter
    /\ db = [buffer |-> None,
             chunks |-> [k \in {} |-> None],
             meta   |-> None,
             ucp    |-> [k \in {} |-> 0]]
    /\ files = [k \in {} |-> <<>>]
    /\ chunkFiles = [k \in {} |-> <<>>]
    /\ last = [op |-> "none", arg |-> 0, fault |-> "none", err |-> FALSE,
               ret |-> 0, retry |-> "none"]
    /\ anchor = 0
    /\ ckptSeen = 0
    /\ nAppends = 0
    /\ nFaults = MaxFaults
    /\ nRestarts = 0
    /\ log = <<>>
    /\ rd = Idle
    /\ puts = [k \in {} |-> 0]
    /\ added = [k \in {} |-> None]

NextScan ==
    \/ DoNewWriter
    \/ DoAppend
    \/ DoCheckpoint
    \/ ScanStart
    \/ ScanTheChunks
    \/ ScanTheBuffer

SpecScan == InitScan /\ [][NextScan]_vars

---------------------------------------------------------------------------
(* A scan run from its snapshot to its end with no Writer call in between. *)

\* Scan(fromPos) on the committed store d, the folder fs and the chunk
\* artifacts: the chunks oldest first, then the Buffer's file up to the
\* descriptor's pos; a file that cannot be opened is an error.
Scan(d, fs, artifacts, fromPos) ==
    LET chs          == lmdbListChunks(d)
        buf          == d.buffer
        missingChunk == \E i \in 1..Len(chs) : chs[i].StartPos \notin DOMAIN artifacts
        missingFile  == buf.Pos > 0 /\ buf.FileName \notin DOMAIN fs
        fromChunks   == ScanChunks(chs, 1, artifacts)
        fromBuffer   == IF buf.Pos = 0 THEN <<>>
                        ELSE DecodeRecords(Take(fs[buf.FileName], buf.Pos),
                                           1, buf.StartPos)
    IN  IF missingChunk \/ missingFile THEN [err |-> TRUE, out |-> <<>>]
        ELSE [err |-> FALSE, out |-> From(fromChunks \o fromBuffer, fromPos)]

\* A scan from the position that preceded one of the Appends.
DoScan ==
    /\ db.buffer # None
    /\ \E i \in 1..Len(log) :
         LET fromPos == log[i].start
             end     == db.buffer.StartPos + db.buffer.Pos
             r       == Scan(db, files, chunkFiles, fromPos)
         IN  rd' = [pc      |-> "done",
                    fromPos |-> fromPos,
                    end     |-> end,
                    chunks  |-> lmdbListChunks(db),
                    buffer  |-> db.buffer,
                    out     |-> r.out,
                    err     |-> r.err,
                    expect  |-> SelectSeq(log, LAMBDA e :
                                   /\ e.start >= fromPos
                                   /\ e.start + Len(PutVarint(e.len)) + e.len <= end)]
    /\ UNCHANGED <<alive, w, db, files, chunkFiles, last, anchor, ckptSeen,
                   nAppends, nFaults, nRestarts, log, puts, added>>

NextRoundTrip ==
    \/ DoNewWriter
    \/ DoAppend
    \/ DoSealTheBuffer
    \/ DoCheckpoint
    \/ DoClose
    \/ DoScan

\* Appends, seals, checkpoints and restarts whose steps all succeed, and
\* scans between them.
SpecRoundTrip == InitScan /\ [][NextRoundTrip]_vars

NextUserCheckpoints ==
    \/ DoNewWriter
    \/ DoAppend
    \/ DoCheckpoint
    \/ DoClose
    \/ DoPutUserCheckpoint
    \/ DoGetUserCheckpoint

\* The Writer with its user checkpoints; of the Writer's steps only the
\* user checkpoint transactions fail.
SpecUserCheckpoints == InitScan /\ [][NextUserCheckpoints]_vars

---------------------------------------------------------------------------
(* The metadata store on its own: AddChunk and ListChunks, each in one     *)
(* transaction; a failed transaction leaves the store as it was and is not *)
(* counted in the fault budget.                                            *)

DoAddChunk ==
    /\ \E key \in ChunkKeys, f \in {"none", "tx"} :
         \E dto \in ChunkDtos(key) :
           /\ db' = IF f = "tx" THEN db ELSE lmdbAddChunk(db, key, dto)
           /\ added' = IF f = "tx" THEN added
                       ELSE [k \in DOMAIN added \cup {key} |->
                                IF k = key THEN dto ELSE added[k]]
           /\ last' = Call("AddChunk", key, f, f = "tx", 0)
    /\ UNCHANGED <<alive, w, files, chunkFiles, anchor, ckptSeen,
                   nAppends, nFaults, nRestarts, log, rd, puts>>

DoListChunks ==
    /\ last' = Call("ListChunks", 0, "none", FALSE, lmdbListChunks(db))
    /\ UNCHANGED <<alive, w, db, files, chunkFiles, anchor, ckptSeen,
                   nAppends, nFaults, nRestarts, log, rd, puts, added>>

NextMetaDB ==
    \/ DoAddChunk
    \/ DoListChunks

SpecMetaDB == Init /\ [][NextMetaDB]_vars

---------------------------------------------------------------------------
(* ScanAsync (specification 4.4 and 5): a task decodes the chunks, oldest  *)
(* first, and then the live Buffer's file, and sends every record to a     *)
(* bounded queue; the caller receives from the queue and may cancel the    *)
(* context at any time, or stop receiving.                                 *)

AsyncIdle == [pc |-> "idle", depth |-> 0, segs |-> <<>>, handle |-> None,
              todo |-> <<>>, queue |-> <<>>, delivered |-> <<>>,
              cancelled |-> FALSE, closed |-> FALSE, err |-> FALSE]

\* The segments of a snapshot: the chunks in key order, then the Buffer when
\* its descriptor says it holds bytes.
Segments(d) ==
    LET chs == lmdbListChunks(d)
    IN  [i \in 1..Len(chs) |-> [kind |-> "chunk", key |-> chs[i].StartPos]]
        \o (IF d.buffer.Pos > 0 THEN <<[kind |-> "buffer", dto |-> d.buffer]>>
            ELSE <<>>)

SegmentExists(seg, fs, artifacts) ==
    IF seg.kind = "chunk" THEN seg.key \in DOMAIN artifacts
    ELSE seg.dto.FileName \in DOMAIN fs

SegmentRecords(seg, fs, artifacts) ==
    IF seg.kind = "chunk" THEN DecodeRecords(artifacts[seg.key], 1, seg.key)
    ELSE DecodeRecords(Take(fs[seg.dto.FileName], seg.dto.Pos), 1, seg.dto.StartPos)

\* Mutant: the task looks at the context only between two segments.
ObservesCancel_betweenSegments(r) == r.cancelled /\ r.pc = "next"

\* The task sees the cancellation at every step: before it opens a segment,
\* between two records and while it waits for room in the queue.
ObservesCancel(r) == r.cancelled

InitAsync ==
    /\ alive = FALSE
    /\ w = NoWriter
    /\ db = [buffer |-> None,
             chunks |-> [k \in {} |-> None],
             meta   |-> None,
             ucp    |-> [k \in {} |-> 0]]
    /\ files = [k \in {} |-> <<>>]
    /\ chunkFiles = [k \in {} |-> <<>>]
    /\ last = [op |-> "none", arg |-> 0, fault |-> "none", err |-> FALSE,
               ret |-> 0, retry |-> "none"]
    /\ anchor = 0
    /\ ckptSeen = 0
    /\ nAppends = 0
    /\ nFaults = MaxFaults
    /\ nRestarts = 0
    /\ log = <<>>
    /\ rd = AsyncIdle
    /\ puts = [k \in {} |-> 0]
    /\ added = [k \in {} |-> None]

\* ScanAsync(ctx, bufferDepth): the snapshot is taken and the task started.
AsyncStart ==
    /\ rd.pc = "idle"
    /\ db.buffer # None
    /\ \E depth \in BufferDepths :
         rd' = [AsyncIdle EXCEPT !.pc = "next", !.depth = depth,
                                 !.segs = Segments(db)]
    /\ UNCHANGED <<alive, w, db, files, chunkFiles, last, anchor, ckptSeen,
                   nAppends, nFaults, nRestarts, log, puts, added>>

\* The task opens the next segment, or ends when none is left, when the
\* file cannot be opened or when the context is cancelled.
AsyncOpen ==
    /\ rd.pc = "next"
    /\ rd' = IF ObservesCancel(rd) \/ rd.segs = <<>> THEN
                 [rd EXCEPT !.pc = "closing"]
             ELSE IF ~SegmentExists(Head(rd.segs), files, chunkFiles) THEN
                 [rd EXCEPT !.pc = "closing", !.err = TRUE]
             ELSE
                 [rd EXCEPT !.pc = "decode",
                            !.handle = Head(rd.segs),
                            !.todo = SegmentRecords(Head(rd.segs), files, chunkFiles)]
    /\ UNCHANGED <<alive, w, db, files, chunkFiles, last, anchor, ckptSeen,
                   nAppends, nFaults, nRestarts, log, puts, added>>

\* The task sends the next record of the open segment, waiting while the
\* queue is full; at the end of the segment, or when the context is
\* cancelled, it closes the file.
AsyncSend ==
    /\ rd.pc = "decode"
    /\ \/ /\ ObservesCancel(rd)
          /\ rd' = [rd EXCEPT !.pc = "closing", !.handle = None]
       \/ /\ ~ObservesCancel(rd)
          /\ rd.todo = <<>>
          /\ rd' = [rd EXCEPT !.pc = "next", !.handle = None, !.segs = Tail(@)]
       \/ /\ ~ObservesCancel(rd)
          /\ rd.todo # <<>>
          /\ Len(rd.queue) < rd.depth
          /\ rd' = [rd EXCEPT !.queue = Append(@, Head(rd.todo)), !.todo = Tail(@)]
    /\ UNCHANGED <<alive, w, db, files, chunkFiles, last, anchor, ckptSeen,
                   nAppends, nFaults, nRestarts, log, puts, added>>

\* The task closes its channels and ends.
AsyncFinish ==
    /\ rd.pc = "closing"
    /\ rd' = [rd EXCEPT !.pc = "done", !.closed = TRUE]
    /\ UNCHANGED <<alive, w, db, files, chunkFiles, last, anchor, ckptSeen,
                   nAppends, nFaults, nRestarts, log, puts, added>>

\* The caller receives a record from the queue.
AsyncReceive ==
    /\ rd.queue # <<>>
    /\ rd' = [rd EXCEPT !.delivered = Append(@, Head(rd.queue)), !.queue = Tail(@)]
    /\ UNCHANGED <<alive, w, db, files, chunkFiles, last, anchor, ckptSeen,
                   nAppends, nFaults, nRestarts, log, puts, added>>

\* The caller cancels the context.
AsyncCancel ==
    /\ rd.pc # "idle"
    /\ ~rd.cancelled
    /\ rd' = [rd EXCEPT !.cancelled = TRUE]
    /\ UNCHANGED <<alive, w, db, files, chunkFiles, last, anchor, ckptSeen,
                   nAppends, nFaults, nRestarts, log, puts, added>>

\* The steps of the scan's task.
AsyncTask == AsyncOpen \/ AsyncSend \/ AsyncFinish

NextAsync ==
    \/ DoNewWriter
    \/ DoAppend
    \/ DoCheckpoint
    \/ AsyncStart
    \/ AsyncOpen
    \/ AsyncSend
    \/ AsyncFinish
    \/ AsyncReceive
    \/ AsyncCancel

\* The task is scheduled as long as it has a step to take; the caller need
\* neither receive nor cancel.
SpecAsync == InitAsync /\ [][NextAsync]_vars /\ WF_vars(AsyncTask)

---------------------------------------------------------------------------
(* Properties *)

\* The length of the signed-varint prefix of a payload of n bytes, from the
\* encoding's definition: seven bits per byte of the doubled length.
PrefixLenOf(n) == IF n < 64 THEN 1 ELSE IF n < 8192 THEN 2 ELSE 3

PrefixedSize(n) == PrefixLenOf(n) + n

\* chs, ordered by startPos, tile [0, bufStart) without gap or overlap.
Partition(chs, bufStart) ==
    /\ Len(chs) = 0 => bufStart = 0
    /\ Len(chs) > 0 =>
         /\ chs[1].StartPos = 0
         /\ \A i \in 1..(Len(chs) - 1) :
              chs[i + 1].StartPos = chs[i].StartPos + chs[i].UncompressedByteSize
         /\ bufStart = chs[Len(chs)].StartPos + chs[Len(chs)].UncompressedByteSize

\* C1. Partition invariant: whatever Append, Checkpoint and seal operations
\* ran on the Writer, the chunk index ordered by startPos starts at 0, each
\* chunk starts where the one before it ends, and the Writer's current Buffer
\* starts at the end of the last chunk (at 0 when there is none).
C1_PartitionInvariant ==
    alive => Partition(lmdbListChunks(db), w.b.startPos)

C1_Witness ==
    /\ alive
    /\ Cardinality(DOMAIN db.chunks) >= 2
    /\ \A k \in DOMAIN db.chunks : db.chunks[k].UncompressedByteSize > 0
    /\ w.b.pos > 0

\* C2. Monotonicity: on one Writer instance no step of any call lowers the
\* position VolatilePos() returns, and a Checkpoint() that succeeds returns
\* that position; so every position either of them returns is at least
\* every position returned before.
C2_Monotonicity ==
    [][ (alive /\ alive') =>
          /\ VolatilePos(w') >= VolatilePos(w)
          /\ (last'.op = "VolatilePos" => last'.ret = VolatilePos(w))
          /\ (last'.op = "Checkpoint" /\ ~last'.err =>
                last'.ret = VolatilePos(w) /\ last'.ret = VolatilePos(w')) ]_vars

C2_Witness ==
    /\ alive
    /\ last.op = "Checkpoint" /\ ~last.err
    /\ last.ret > 0
    /\ w.b.startPos > 0
    /\ nFaults > 0

\* C3. Positions are continuous across rotation: a successful Append(data)
\* returns VolatilePos() before the call plus the prefixed size of data,
\* whether or not it sealed; the result is greater than the position before
\* and equals VolatilePos() after the call.
C3_AppendPosition ==
    [][ (last'.op = "Append" /\ ~last'.err) =>
          /\ last'.ret = VolatilePos(w) + PrefixedSize(last'.arg)
          /\ last'.ret > VolatilePos(w)
          /\ last'.ret = VolatilePos(w') ]_vars

C3_Witness ==
    /\ last.op = "Append" /\ ~last.err
    /\ last.arg = 64
    /\ w.b.startPos > 0
    /\ w.b.records = 1

\* C4. Capacity invariant: the current Buffer holds at most maxBytes bytes
\* unless it holds exactly one record, one that alone exceeds maxBytes; and
\* an Append that writes into a Buffer with pos > 0 never leaves pos above
\* maxBytes.
C4_CapacityState ==
    (alive /\ w.b.pos > w.b.maxBytes) =>
        /\ w.b.records = 1
        /\ \E n \in DataLens : w.b.pos = PrefixedSize(n)

C5_Sealed == db' # db

C5_Trigger == w.b.pos > 0 /\ w.b.pos + PrefixedSize(last'.arg) > w.b.maxBytes

C5_Effect ==
    /\ w.b.startPos \in DOMAIN db'.chunks
    /\ db'.chunks[w.b.startPos].StartPos = w.b.startPos
    /\ db'.chunks[w.b.startPos].UncompressedByteSize = w.b.pos
    /\ w'.b.startPos = w.b.startPos + w.b.pos
    /\ w'.b.records = 1
    /\ w'.b.pos = PrefixedSize(last'.arg)

C5_SealTrigger ==
    [][ (last'.op = "Append" /\ ~last'.err) =>
          /\ C5_Sealed <=> C5_Trigger
          /\ C5_Trigger =>
                /\ Cardinality(DOMAIN db'.chunks) = Cardinality(DOMAIN db.chunks) + 1
                /\ C5_Effect
          /\ ~C5_Trigger => db'.chunks = db.chunks ]_vars

\* C6. Durability boundary: a Writer constructed on a used folder starts at
\* startPos + pos of the buffer descriptor committed last, which is the
\* position at the latest successful Checkpoint or seal and is at least
\* every position a Checkpoint returned; Close persists nothing.
C6_DurabilityBoundary ==
    /\ [](db.buffer # None => db.buffer.StartPos + db.buffer.Pos = anchor)
    /\ [](anchor >= ckptSeen)
    /\ [][ (last'.op = "NewWriter" /\ db.buffer # None) =>
             /\ VolatilePos(w') = db.buffer.StartPos + db.buffer.Pos
             /\ VolatilePos(w') = anchor
             /\ VolatilePos(w') >= ckptSeen ]_vars
    /\ [][ last'.op = "Close" =>
             db' = db /\ files' = files /\ chunkFiles' = chunkFiles ]_vars

\* A restart that lost records: bytes flushed after the last Checkpoint are
\* still in the file, beyond the recovered position.
C6_Witness ==
    /\ alive
    /\ last.op = "NewWriter"
    /\ last.ret = ckptSeen
    /\ ckptSeen > 0
    /\ w.b.fileName \in DOMAIN files
    /\ Len(files[w.b.fileName]) > w.b.pos

\* C7. A failed seal changes nothing observable: when Seal-and-Rotate fails
\* at the flush, at the compress or in the transaction, the chunk index and
\* the persisted descriptor are unchanged, the Writer's Buffer is the old one
\* with the same startPos, pos, records and bytes, and the call returns an
\* error; the retried Append then seals once: the old Buffer becomes the
\* chunk at its startPos, the record is the first of the Buffer that follows
\* it, and the partition invariant holds.
FailedSeal(c) ==
    /\ c.op \in {"Append", "SealTheBuffer"}
    /\ c.err
    /\ c.fault \in {"flush", "compress", "tx"}

C7_FailedSeal ==
    /\ [][ FailedSeal(last') => (db' = db /\ w' = w /\ last'.ret = 0) ]_vars
    /\ [][ (FailedSeal(last) /\ last'.retry # "none" /\ ~last'.err) =>
             /\ w'.b.startPos = w.b.startPos + w.b.pos
             /\ w'.b.records = 1
             /\ w'.b.pos = PrefixedSize(last'.arg)
             /\ w.b.startPos \in DOMAIN db'.chunks
             /\ db'.chunks[w.b.startPos].StartPos = w.b.startPos
             /\ db'.chunks[w.b.startPos].UncompressedByteSize = w.b.pos
             /\ \A k \in DOMAIN db.chunks \ {w.b.startPos} :
                  k \in DOMAIN db'.chunks /\ db'.chunks[k] = db.chunks[k]
             /\ Partition(lmdbListChunks(db'), w'.b.startPos) ]_vars

\* The retried Append has sealed, after a seal that failed in the transaction.
C7_Witness ==
    /\ last.op = "Append" /\ last.retry = "tx" /\ ~last.err
    /\ w.b.records = 1
    /\ w.b.startPos > 0
    /\ Cardinality(DOMAIN db.chunks) = 1

\* C8. Flush failures are propagated: whenever the flush of the current
\* Buffer fails inside Checkpoint or Seal-and-Rotate, the call returns an
\* error and commits nothing to the metadata store.
C8_FlushPropagated ==
    [][ last'.fault = "flush" => (last'.err /\ db' = db) ]_vars

\* C9. Persisted metadata is a partition: in every committed state of the
\* store, with or without a live Writer, the persisted buffer descriptor
\* starts at the end of the last indexed chunk (at 0 when there is none),
\* and no chunk is indexed without a buffer descriptor.
C9_PersistedPartition ==
    /\ db.buffer # None =>
         Partition(lmdbListChunks(db), db.buffer.StartPos)
    /\ db.buffer = None => DOMAIN db.chunks = {}

\* The store as a crash right after the transaction of a seal leaves it: the
\* chunk is indexed, the old Buffer's file is still in the folder.
C9_Witness ==
    /\ ~alive
    /\ db.buffer # None
    /\ db.buffer.StartPos > 0
    /\ \E k \in DOMAIN db.chunks :
         /\ db.chunks[k].UncompressedByteSize > 0
         /\ FileNameOf(k) \in DOMAIN files

\* C10. Scan under concurrent writes: a Scan(fromPos) begun when the log
\* ends at E, interleaved in any way with the Writer's Appends, completes
\* without error and delivers, in ascending position order and each once,
\* every record located in [fromPos, E).
C10_ScanUnderWrites ==
    rd.pc = "done" =>
        /\ ~rd.err
        /\ Len(rd.out) = Len(rd.expect)
        /\ \A i \in 1..Len(rd.out) :
             /\ rd.out[i].pos = rd.expect[i].start
             /\ rd.out[i].data = MkData(rd.expect[i].len)

\* C11. Round-trip: after a successful Append(d) that a Checkpoint or a seal
\* has made part of the persisted log, whatever Appends and seals came before,
\* a scan from the position that preceded the Append completes and delivers
\* first a record at that position whose payload is d, be the record in the
\* live Buffer or in a chunk.
C11_RoundTrip ==
    (rd.pc = "done" /\ rd.expect # <<>> /\ rd.expect[1].start = rd.fromPos) =>
        /\ ~rd.err
        /\ rd.out # <<>>
        /\ rd.out[1].pos = rd.fromPos
        /\ rd.out[1].data = MkData(rd.expect[1].len)

\* C12. User checkpoints round-trip and survive restart: whenever a Writer
\* is open, GetUserCheckpoint(name) returns the position of the latest
\* successful PutUserCheckpoint for that name, whatever was put for other
\* names, whichever Put failed since and however often the Writer was closed
\* and a new one opened on the folder.
C12_UserCheckpointRoundTrip ==
    /\ alive => \A name \in DOMAIN puts :
                    /\ ~GetUserCheckpoint(State, name, "none").err
                    /\ GetUserCheckpoint(State, name, "none").ret = puts[name]
    /\ (last.op = "GetUserCheckpoint" /\ ~last.err /\ last.arg.name \in DOMAIN puts) =>
           last.ret = puts[last.arg.name]

\* Get after a restart: both names were put, one of them twice, the Writer
\* was closed and reopened, and the Get returned the later position.
C12_Witness ==
    /\ alive
    /\ nRestarts = 1
    /\ last.op = "GetUserCheckpoint" /\ ~last.err
    /\ last.arg.name = "consumerA" /\ last.ret = 123
    /\ DOMAIN puts = CheckpointNames
    /\ puts["consumerB"] = 7
    /\ w.b.startPos > 0

\* C17. User checkpoints are independent of the Writer's buffer state:
\* PutUserCheckpoint and GetUserCheckpoint leave VolatilePos(), the current
\* Buffer, the persisted buffer descriptor, the chunk index, the statistics
\* and the files unchanged; Append, Checkpoint and Seal-and-Rotate leave
\* (the seal inside Append) leave every stored user checkpoint unchanged.
C17_Independence ==
    [][ /\ last'.op \in {"PutUserCheckpoint", "GetUserCheckpoint"} =>
             /\ w' = w
             /\ VolatilePos(w') = VolatilePos(w)
             /\ db'.buffer = db.buffer
             /\ db'.chunks = db.chunks
             /\ db'.meta = db.meta
             /\ files' = files
             /\ chunkFiles' = chunkFiles
        /\ last'.op \in {"Append", "Checkpoint"} =>
             db'.ucp = db.ucp ]_vars

\* Both names were put, the statistics were checkpointed, and the last call
\* is an Append that sealed.
C17_Witness ==
    /\ last.op = "Append" /\ ~last.err
    /\ w.b.records = 1 /\ w.b.startPos > 0
    /\ Cardinality(DOMAIN db.chunks) = 1
    /\ db.meta # None
    /\ DOMAIN db.ucp = CheckpointNames
    /\ db.ucp["consumerA"] = 123

\* C13. Chunk index entries are write-once: no call of Append, Checkpoint or
\* SealTheBuffer (called directly too, also on an empty Buffer) overwrites,
\* changes or removes an entry of the chunk index, and every seal inserts
\* its chunk under a startPos key that was not in the index before.
C13_ChunksWriteOnce ==
    [][ /\ \A k \in DOMAIN db.chunks :
             k \in DOMAIN db'.chunks /\ db'.chunks[k] = db.chunks[k]
        /\ ((last'.op = "SealTheBuffer" /\ ~last'.err)
              \/ (last'.op = "Append" /\ db' # db)) =>
             w.b.startPos \notin DOMAIN db.chunks ]_vars

\* C15. Statistics are persisted only by Checkpoint: an Append, sealing or
\* not, leaves the persisted statistics as they are and sets the in-memory
\* maxValSize to the maximum of its value and the payload length when it
\* succeeds (and leaves it when it fails); no call but Checkpoint changes the
\* persisted statistics; a successful Checkpoint commits the in-memory
\* maxKeySize/maxValSize together with the Buffer's descriptor.
C15_StatsPersistedByCheckpoint ==
    [][ /\ last'.op = "Append" =>
             /\ w'.maxKeySize = w.maxKeySize
             /\ w'.maxValSize = IF last'.err THEN w.maxValSize
                                ELSE Max(w.maxValSize, last'.arg)
        /\ last'.op # "Checkpoint" => db'.meta = db.meta
        /\ (last'.op = "Checkpoint" /\ ~last'.err) =>
             /\ db'.meta = [MaxKeySize |-> w.maxKeySize, MaxValSize |-> w.maxValSize]
             /\ db'.buffer = getState(w.b)
             /\ w'.maxValSize = w.maxValSize
        /\ (last'.op = "Checkpoint" /\ last'.err) => db' = db ]_vars

\* A Checkpoint persisted the statistics of a Writer that had appended a
\* 64-byte and a smaller payload, the second Append sealing.
C15_Witness ==
    /\ last.op = "Checkpoint" /\ ~last.err
    /\ db.meta # None
    /\ db.meta.MaxValSize = 64
    /\ w.b.startPos > 0
    /\ w.b.pos > 0 /\ w.b.pos < 64

\* The records of the log that lie in the current Buffer.
BufferRecords == SelectSeq(log, LAMBDA e : e.start >= w.b.startPos)

RECURSIVE SumPrefixedSizes(_)
SumPrefixedSizes(recs) ==
    IF recs = <<>> THEN 0
    ELSE PrefixedSize(Head(recs).len) + SumPrefixedSizes(Tail(recs))

\* C18. Record framing invariant: after any sequence of Appends, failing
\* ones included, the current Buffer counts the records appended to it and
\* its pos is the sum of their prefixed sizes; a failed Append leaves pos and
\* records as they were, or at 0/0 of the fresh Buffer when it sealed first.
C18_Framing ==
    /\ [](alive => /\ w.b.records = Len(BufferRecords)
                   /\ w.b.pos = SumPrefixedSizes(BufferRecords))
    /\ [][ (last'.op = "Append" /\ last'.err) =>
             \/ (w'.b.pos = w.b.pos /\ w'.b.records = w.b.records)
             \/ (db' # db /\ w'.b.pos = 0 /\ w'.b.records = 0) ]_vars

\* C19. The live Buffer's file is never deleted: while a Writer is open the
\* file its current Buffer names exists, and a file leaves the folder only
\* when its name differs from the current Buffer's file name and the Buffer
\* that was sealed had pos > 0.
C19_LiveFileKept ==
    /\ [](alive => w.b.fileName \in DOMAIN files)
    /\ [][ \A name \in DOMAIN files \ DOMAIN files' :
             name # w'.b.fileName /\ w.b.pos > 0 ]_vars

\* C20. Recovered statistics bound the durable records: a Writer constructed
\* on a used folder has a maxValSize that is at least the payload length of
\* every record in an indexed chunk or in [0, pos) of the recovered Buffer.
C20_RecoveredStatsBound ==
    (alive /\ last.op = "NewWriter") =>
        \A i \in 1..Len(log) : w.maxValSize >= log[i].len

\* C16. Chunk index listing: after AddChunk succeeded for k pairwise
\* distinct startPos keys, in whatever order, ListChunks returns exactly k
\* entries, and its i-th entry is the chunk stored under the i-th smallest
\* of the keys.
C16_ChunkListing ==
    last.op = "ListChunks" =>
        /\ Len(last.ret) = Cardinality(DOMAIN added)
        /\ \A i \in 1..Len(last.ret) :
             \E key \in DOMAIN added :
                /\ Cardinality({k \in DOMAIN added : k < key}) = i - 1
                /\ last.ret[i] = added[key]

\* The listing of a store that holds a chunk under every key, the zero
\* ChunkDto under key 10 as in the test.
C16_Witness ==
    /\ last.op = "ListChunks"
    /\ DOMAIN added = ChunkKeys
    /\ Len(last.ret) = MaxKey + 1
    /\ added[10].StartPos = 0
    /\ added[20].StartPos = 20

\* C14. ScanAsync cancellation: once the context is cancelled, wherever the
\* task is (decoding a chunk, decoding the live Buffer, waiting for room in
\* the full queue), the task eventually ends with its channels closed and
\* no file open, and from the cancellation on no record is added to the
\* queue: what the caller can still receive is what was queued before.
C14_Cancellation ==
    /\ (rd.cancelled ~> (rd.pc = "done" /\ rd.closed /\ rd.handle = None))
    /\ [](rd.pc = "done" => rd.handle = None)
    /\ [][ rd.cancelled =>
             /\ rd'.delivered \o rd'.queue = rd.delivered \o rd.queue
             /\ (rd.handle = None => rd'.handle = None) ]_vars

\* The task was waiting with a record in hand for room in the full queue
\* when the context was cancelled, and has ended with the file closed; the
\* caller has received nothing.
C14_Witness ==
    /\ rd.pc = "done"
    /\ rd.cancelled
    /\ rd.todo # <<>>
    /\ Len(rd.queue) = rd.depth
    /\ rd.segs # <<>>
    /\ rd.delivered = <<>>
    /\ rd.handle = None

====
